---- MODULE Spec2Model ----
(***************************************************************************)
(* A model of the repository indexer: the index tree built from a          *)
(* directory snapshot (index_tree/), the per-file declaration buckets      *)
(* (parser/python/extract_nodes.py), the Object Table                      *)
(* (parser/python/build_object_table.py), the relative import resolver     *)
(* (parser/python/update_relative_imports.py) and the snippet assembler    *)
(* (parser/python/_parser_utils.py).                                       *)
(*                                                                         *)
(* Encoding.  A path is the sequence of its components; a directory entry  *)
(* is kept split in stem and suffix (its name is stem \o suffix); a node   *)
(* of the tree is addressed by its path and file_tree maps every path of   *)
(* the tree to its node record, children being the child paths in order.   *)
(* The empty function stands for file_tree = None.  A string function that *)
(* looks inside a string (split, startswith, a regular expression) is      *)
(* given by its values on the strings the model uses.                      *)
(***************************************************************************)
EXTENDS Integers, Sequences, FiniteSets, TLC

VARIABLES
    fs,               \* the directory snapshot and the parsed content of its files
    file_tree,        \* RepoIndexTree.file_tree
    object_table,     \* RepoIndexTree.object_table
    folder_count,     \* RepoIndexTree._folder_count
    file_count,       \* RepoIndexTree._file_count
    repo_size,        \* RepoIndexTree.repo_size
    pc,               \* the statement of parse_repo that runs next ("api": no run)
    todo,             \* the nodes the running traversal has still to visit
    raised,           \* the exception the last call ended with ("" when it returned)
    snip              \* the inputs and results of the snippet assembler

vars == <<fs, file_tree, object_table, folder_count, file_count, repo_size,
          pc, todo, raised, snip>>

-----------------------------------------------------------------------------
(* Sequences *)

Range(s) == {s[i] : i \in DOMAIN s}

Front(s) == SubSeq(s, 1, Len(s) - 1)

Last(s) == s[Len(s)]

Reverse(s) == [i \in 1..Len(s) |-> s[Len(s) + 1 - i]]

RECURSIVE ConcatAll(_)
ConcatAll(ss) == IF ss = <<>> THEN <<>> ELSE Head(ss) \o ConcatAll(Tail(ss))

EmptyMap == [k \in {} |-> 0]

MapPut(m, k, v) == [x \in DOMAIN m \cup {k} |-> IF x = k THEN v ELSE m[x]]

-----------------------------------------------------------------------------
(* pathlib.Path *)

\* Path.parent: the parent of the filesystem root is the root itself.
Parent(p) == IF p = <<>> THEN p ELSE Front(p)

\* Path.joinpath of one relative component.
JoinPath(p, j) == Append(p, j)

\* Path.stem of a final component, for the component names the model uses: the
\* part before the last dot, a leading dot not counting.
StemOf(name) ==
    CASE name = "helper.py" -> "helper"
      [] name = "a.py" -> "a"
      [] name = "junk.py" -> "junk"
      [] name = "__init__.py" -> "__init__"
      [] name = "nb.ipynb" -> "nb"
      [] name = "README.md" -> "README"
      [] OTHER -> name

\* Path.with_suffix: the suffix of the final component replaced.
WithSuffix(p, suffix) == Append(Front(p), StemOf(Last(p)) \o suffix)

\* str.startswith('__') on the stems the model uses.
StartsWithDunder(stem) == stem \in {"__pycache__", "__init__", "__main__"}

-----------------------------------------------------------------------------
(* The directory snapshot *)

\* The repository root handed to the constructor.
repo_path == <<"srv", "repo">>

PkgDir == JoinPath(repo_path, "pkg")

FileEntry(stem, suffix) == [stem |-> stem, suffix |-> suffix, is_dir |-> FALSE]

DirEntry(stem) == [stem |-> stem, suffix |-> "", is_dir |-> TRUE]

\* item.name
ItemName(item) == item.stem \o item.suffix

-----------------------------------------------------------------------------
(* Top-level statements of a file (ast nodes) *)

\* ImportFrom.module of `from . import x`.
None == "None"

Alias(name, asname) == [name |-> name, asname |-> asname]

Stmt(type, name, module, level, names, targets) ==
    [type |-> type, name |-> name, module |-> module, level |-> level,
     names |-> names, targets |-> targets, src |-> <<>>]

ImportFrom(module, level, names) == Stmt("ImportFrom", "", module, level, names, <<>>)

Import(names) == Stmt("Import", "", None, 0, names, <<>>)

FunctionDef(name) == Stmt("FunctionDef", name, None, 0, <<>>, <<>>)

ClassDef(name) == Stmt("ClassDef", name, None, 0, <<>>, <<>>)

\* An assignment; each target is a Name (with an id), a Tuple or an Attribute.
Assign(targets) == Stmt("Assign", "", None, 0, <<>>, targets)

NameTarget(id) == [type |-> "Name", id |-> id]

TupleTarget == [type |-> "Tuple", id |-> ""]

\* Any other statement (an expression, an annotated assignment, ...).
Expr == Stmt("Expr", "", None, 0, <<>>, <<>>)

\* str.split(".") on the dotted names the model uses.
SplitDots(s) ==
    CASE s = "pkg.helper" -> <<"pkg", "helper">>
      [] s = "pkg.helper.helper" -> <<"pkg", "helper", "helper">>
      [] OTHER -> <<s>>

\* ".".join(names)
RECURSIVE JoinDots(_)
JoinDots(names) ==
    IF names = <<>> THEN ""
    ELSE IF Len(names) = 1 THEN names[1]
    ELSE names[1] \o "." \o JoinDots(Tail(names))

\* ast.unparse of an import statement, as its tokens up to the module path.
Unparse(stmt) ==
    IF stmt.type = "ImportFrom"
    THEN <<"from", " ">> \o [i \in 1..stmt.level |-> "."]
         \o (IF stmt.module = None THEN <<>> ELSE <<stmt.module>>)
         \o <<" ", "import", " ">>
    ELSE <<"import", " ">> \o <<JoinDots([i \in 1..Len(stmt.names) |-> stmt.names[i].name])>>

-----------------------------------------------------------------------------
(* The snapshots the model starts from *)

\* The most leading dots an import of the drawn files has.
MaxDots == 2

Parsed(body) == [ok |-> TRUE, body |-> body]

\* A file ast.parse rejects.
Broken == [ok |-> FALSE, body |-> <<>>]

\* The contents root/pkg/a.py takes.
AContents ==
    { Parsed(<<ImportFrom("helper", 1, <<Alias("*", "")>>)>>),
      Parsed(<<ImportFrom(None, 1, <<Alias("helper", "")>>)>>),
      Parsed(<<ImportFrom("helper", 1, <<Alias("*", "")>>),
               ImportFrom("helper", 1, <<Alias("helper_fn", ""), Alias("missing", "")>>),
               FunctionDef("g")>>),
      Parsed(<<ImportFrom("helper", 0, <<Alias("helper_fn", "hf"), Alias("Helper", "")>>)>>),
      Parsed(<<ImportFrom("pkg.helper", 0, <<Alias("*", "")>>),
               ImportFrom("helper", 1, <<Alias("helper_fn", "")>>)>>),
      Parsed(<<ImportFrom("helper", MaxDots, <<Alias("*", "")>>), Expr>>),
      Parsed(<<Import(<<Alias("pkg.helper", "")>>), Import(<<Alias("os", "")>>),
               ImportFrom("numpy", 0, <<Alias("array", "")>>)>>),
      Parsed(<<Assign(<<TupleTarget>>), FunctionDef("g")>>),
      Parsed(<<FunctionDef("g"), FunctionDef("_h"), ClassDef("C"),
               Assign(<<NameTarget("x"), NameTarget("y")>>)>>),
      Broken }

\* The contents a helper.py takes.
HelperContents ==
    { Parsed(<<ImportFrom("a", 1, <<Alias("g", "")>>), FunctionDef("helper_fn"),
               FunctionDef("_private"), Assign(<<NameTarget("helper_fn")>>),
               ClassDef("Helper")>>),
      Parsed(<<FunctionDef("other_fn")>>),
      Broken }

Present(flag, entry) == IF flag THEN <<entry>> ELSE <<>>

\* The order Path.iterdir lists a directory in is the snapshot's.
Listed(rev, entries) == IF rev THEN Reverse(entries) ELSE entries

Snapshot(inPkg, inRoot, rev, aContent, hContent) ==
    [exists |-> TRUE,
     listing |->
        [d \in {repo_path, PkgDir, JoinPath(repo_path, "__pycache__"),
                JoinPath(repo_path, "docs"), JoinPath(repo_path, "empty")} |->
            CASE d = repo_path ->
                    Listed(rev, <<DirEntry("pkg")>>
                                \o Present(inRoot, FileEntry("helper", ".py"))
                                \o <<DirEntry("__pycache__"), FileEntry("nb", ".ipynb"),
                                     DirEntry("docs"), DirEntry("empty")>>)
              [] d = PkgDir ->
                    Listed(rev, <<FileEntry("a", ".py")>>
                                \o Present(inPkg, FileEntry("helper", ".py"))
                                \o <<FileEntry("__init__", ".py")>>)
              [] d = JoinPath(repo_path, "__pycache__") -> <<FileEntry("junk", ".py")>>
              [] d = JoinPath(repo_path, "empty") -> <<>>
              [] OTHER -> <<FileEntry("README", ".md")>>],
     content |->
        [f \in {JoinPath(PkgDir, "a.py"), JoinPath(PkgDir, "helper.py"),
                JoinPath(repo_path, "helper.py")} |->
            IF f = JoinPath(PkgDir, "a.py") THEN aContent ELSE hContent]]

\* The configured root does not exist.
NoRoot == [exists |-> FALSE, listing |-> EmptyMap, content |-> EmptyMap]

Snapshots ==
    {NoRoot} \cup
    { Snapshot(inPkg, inRoot, rev, a, h) :
        inPkg \in BOOLEAN, inRoot \in BOOLEAN, rev \in BOOLEAN,
        a \in AContents, h \in HelperContents }

-----------------------------------------------------------------------------
(* _scheme.py: the node *)

\* FileObjects(): the default of RepoIndexNode.objects.
FileObjects ==
    [cls |-> "FileObjects", import_ |-> <<>>, function_ |-> <<>>,
     variable_ |-> <<>>, class_ |-> <<>>]

PythonFileObjects(i, f, v, c) ==
    [cls |-> "PythonFileObjects", import_ |-> i, function_ |-> f,
     variable_ |-> v, class_ |-> c]

\* RepoIndexNode(name=, path=, is_file=): every other field takes its default.
RepoIndexNode(name, path, is_file) ==
    [name |-> name, path |-> path, is_file |-> is_file,
     has_link_relative_imports |-> FALSE, has_join_code_snippets |-> FALSE,
     children |-> <<>>, objects |-> FileObjects, relative_imports |-> <<>>,
     snippet |-> <<>>]

-----------------------------------------------------------------------------
(* index_tree_builder.py: the tree *)

\* A walk that attaches every entry without the marker, whatever its suffix.
AttachesUnmarked(item) == ~StartsWithDunder(item.stem)

\* Whether _build_python_index_tree attaches a child node for a directory entry.
AttachesChild(item) ==
    IF item.is_dir
    THEN ~StartsWithDunder(item.stem)
    ELSE ~StartsWithDunder(item.stem) /\ item.suffix = ".py"

KeptItems(fsx, d) == SelectSeq(fsx.listing[d], AttachesChild)

\* The is_file argument of the child node made for an entry.
ChildIsFileAlways(item) == TRUE

ChildIsFile(item) == ~item.is_dir

\* The paths of the nodes _build_python_index_tree makes below (and with) d.
RECURSIVE TreePaths(_, _)
TreePaths(fsx, d) ==
    {d} \cup UNION { IF it.is_dir
                     THEN TreePaths(fsx, JoinPath(d, ItemName(it)))
                     ELSE {JoinPath(d, ItemName(it))} :
                     it \in Range(KeptItems(fsx, d)) }

\* The tree _build_python_index_tree leaves under the root node: it recurses into
\* the directories and appends one child per attached entry, in listing order.
BuildPythonIndexTree(fsx, root) ==
    LET ItemOf(p) == CHOOSE it \in Range(KeptItems(fsx, Parent(p))) : ItemName(it) = Last(p)
        Recursed(p) == p = root \/ ItemOf(p).is_dir
        Made(p) == IF p = root
                   THEN RepoIndexNode(Last(root), root, FALSE)
                   ELSE RepoIndexNode(Last(p), p, ChildIsFile(ItemOf(p)))
    IN  [p \in TreePaths(fsx, root) |->
            [Made(p) EXCEPT !.children =
                IF Recursed(p)
                THEN [i \in 1..Len(KeptItems(fsx, p)) |->
                        JoinPath(p, ItemName(KeptItems(fsx, p)[i]))]
                ELSE <<>>]]

\* file_tree = None
NoTree == EmptyMap

\* PythonRepoIndexTree.create_tree: the root node is assigned before the walk, so
\* a missing root leaves it behind and raises FileNotFoundError.
CreateTree(fsx) ==
    IF fsx.exists
    THEN [raised |-> "", tree |-> BuildPythonIndexTree(fsx, repo_path)]
    ELSE [raised |-> "FileNotFoundError",
          tree |-> [p \in {repo_path} |-> RepoIndexNode(Last(repo_path), repo_path, FALSE)]]

-----------------------------------------------------------------------------
(* index_tree_base.py: traversal and size accounting *)

\* The order traverse_index_node visits the nodes in: a node, then its children's
\* subtrees in order.
RECURSIVE PreOrder(_, _)
PreOrder(tree, p) ==
    <<p>> \o ConcatAll([i \in 1..Len(tree[p].children) |->
                            PreOrder(tree, tree[p].children[i])])

TraversalOrder(tree) == PreOrder(tree, repo_path)

\* A count that leaves the directories out.
GetTreeSizeFilesOnly(node) == IF node.is_file THEN <<0, 1>> ELSE <<0, 0>>

\* _get_tree_size: [dir_count, file_count] of one node.
GetTreeSize(node) == IF node.is_file THEN <<0, 1>> ELSE <<1, 0>>

RECURSIVE SumColumn(_, _)
SumColumn(rows, c) == IF rows = <<>> THEN 0 ELSE Head(rows)[c] + SumColumn(Tail(rows), c)

\* _calculate_repo_size: the column sums of the collected results.
CalculateRepoSize(tree) ==
    LET order == TraversalOrder(tree)
        amount == [i \in 1..Len(order) |-> GetTreeSize(tree[order[i]])]
        folders == SumColumn(amount, 1)
        files == SumColumn(amount, 2)
    IN  [folder_count |-> folders, file_count |-> files,
         repo_size |-> IF folders >= 0 /\ files >= 0 THEN folders + files ELSE repo_size]

-----------------------------------------------------------------------------
(* _parser_utils.py and extract_nodes.py: the Declaration Extractor *)

\* sys.stdlib_module_names, the modules __import__ finds in the environment, and
\* the list _load_common_ds_pkg returns (parser/python/_commom_ds_packages).
StdlibModuleNames == {"os", "sys"}

ImportableModules == {"os", "sys", "numpy"}

COMMON_DS_PACKAGES == {"numpy", "pandas"}

\* str.endswith(".py") on the component names the model uses.
EndsWithPy(name) == name \in {"a.py", "helper.py", "junk.py", "__init__.py"}

\* ast.parse gives every statement its own node: a node is identified by the
\* file it was parsed from and its position in the body.
ParseBody(path, body) == [i \in 1..Len(body) |-> [body[i] EXCEPT !.src = <<path, i>>]]

\* _load_and_check_file
LoadAndCheckFile(fsx, path) ==
    IF path \notin DOMAIN fsx.content
    THEN [raised |-> "ValueError", body |-> <<>>]
    ELSE IF ~EndsWithPy(Last(path))
    THEN [raised |-> "ValueError", body |-> <<>>]
    ELSE IF ~fsx.content[path].ok
    THEN [raised |-> "ValueError", body |-> <<>>]
    ELSE [raised |-> "", body |-> ParseBody(path, fsx.content[path].body)]

\* _extract_import: the first identifier of the module name; re.search raises
\* TypeError on the None module of `from . import x`.
ExtractImport(stmt) ==
    LET text == IF stmt.type = "Import" THEN stmt.names[1].name
                ELSE IF stmt.type = "ImportFrom" THEN stmt.module
                ELSE ""
    IN  IF text = None THEN [raised |-> "TypeError", text |-> ""]
        ELSE [raised |-> "", text |-> SplitDots(text)[1]]

\* _not_stdlib_module: every failure of the probe counts as "not standard library".
NotStdlibModule(stmt) ==
    LET m == ExtractImport(stmt)
    IN  IF m.raised # "" THEN TRUE
        ELSE IF m.text \notin ImportableModules THEN TRUE
        ELSE m.text \notin StdlibModuleNames

\* _not_common_ds_pkg_module: an exception of _extract_import is not caught here.
NotCommonDsPkgModule(stmt) ==
    LET m == ExtractImport(stmt)
    IN  IF m.raised # "" THEN [raised |-> m.raised, keep |-> FALSE]
        ELSE [raised |-> "", keep |-> m.text \notin COMMON_DS_PACKAGES]

IsType(types, stmt) == stmt.type \in types

\* _extract_file_modules
ExtractFileModules(fsx, path) ==
    LET loaded == LoadAndCheckFile(fsx, path)
        body == loaded.body
        i == SelectSeq(body, LAMBDA m: IsType({"Import", "ImportFrom"}, m))
        f == SelectSeq(body, LAMBDA m: IsType({"FunctionDef"}, m))
        v == SelectSeq(body, LAMBDA m: IsType({"Assign"}, m))
        c == SelectSeq(body, LAMBDA m: IsType({"ClassDef"}, m))
        i1 == SelectSeq(i, NotStdlibModule)
        failing == {k \in 1..Len(i1) : NotCommonDsPkgModule(i1[k]).raised # ""}
        i_clean == SelectSeq(i1, LAMBDA m: NotCommonDsPkgModule(m).keep)
    IN  IF loaded.raised # "" THEN [raised |-> loaded.raised, objects |-> FileObjects]
        ELSE IF failing # {}
        THEN [raised |-> NotCommonDsPkgModule(i1[CHOOSE k \in failing : \A j \in failing : k <= j]).raised,
              objects |-> FileObjects]
        ELSE [raised |-> "", objects |-> PythonFileObjects(i_clean, f, v, c)]

\* extract_node_objects: the node function of the extraction traversal.
ExtractNodeObjects(fsx, node) ==
    IF node.is_file
    THEN LET r == ExtractFileModules(fsx, node.path)
         IN  IF r.raised # "" THEN [raised |-> r.raised, node |-> node]
             ELSE [raised |-> "", node |-> [node EXCEPT !.objects = r.objects]]
    ELSE [raised |-> "", node |-> node]

-----------------------------------------------------------------------------
(* build_object_table.py: the Object Table *)

\* An entry of the table is the list [kind, name, object].
Entry(kind, name, obj) == <<kind, name, obj>>

\* variable_.targets[0].id: only a Name has an id.
FirstTargetId(variable) ==
    IF variable.targets[1].type = "Name"
    THEN [raised |-> "", id |-> variable.targets[1].id]
    ELSE [raised |-> "AttributeError", id |-> ""]

\* file_objects_2_list
FileObjectsToList(obj) ==
    LET imports == [k \in 1..Len(obj.import_) |->
                        Entry("import", obj.import_[k].names[1].name, obj.import_[k])]
        functions == [k \in 1..Len(obj.function_) |->
                        Entry("function", obj.function_[k].name, obj.function_[k])]
        variables == [k \in 1..Len(obj.variable_) |->
                        Entry("variable", FirstTargetId(obj.variable_[k]).id, obj.variable_[k])]
        classes == [k \in 1..Len(obj.class_) |->
                        Entry("class", obj.class_[k].name, obj.class_[k])]
    IN  IF \E k \in 1..Len(obj.variable_) : FirstTargetId(obj.variable_[k]).raised # ""
        THEN [raised |-> "AttributeError", data |-> <<>>]
        ELSE [raised |-> "", data |-> imports \o functions \o variables \o classes]

\* One visit of _update_node_items: a file node's list is stored under its path.
UpdateNodeItem(table, node) ==
    IF node.is_file
    THEN LET r == FileObjectsToList(node.objects)
         IN  IF r.raised # "" THEN [raised |-> r.raised, table |-> table]
             ELSE [raised |-> "", table |-> MapPut(table, node.path, r.data)]
    ELSE [raised |-> "", table |-> table]

-----------------------------------------------------------------------------
(* _trace_import.py and update_relative_imports.py: the Relative Import Resolver *)

\* The length of the run of "." tokens that starts at position k.
RECURSIVE DotRun(_, _)
DotRun(tokens, k) ==
    IF k <= Len(tokens) /\ tokens[k] = "." THEN 1 + DotRun(tokens, k + 1) ELSE 0

\* _count_leading_dots: re.match(r"(import|from)\s+(\.+)", text)
CountLeadingDots(tokens) ==
    IF Len(tokens) >= 3 /\ tokens[1] \in {"import", "from"} /\ tokens[2] = " "
       /\ tokens[3] = "."
    THEN DotRun(tokens, 3)
    ELSE 0

\* _parse_import_module
ParseImportModule(stmt) ==
    IF stmt.type = "ImportFrom" THEN stmt.module
    ELSE JoinDots([k \in 1..Len(stmt.names) |-> stmt.names[k].name])

\* strip_import_alias: re.match(r"(\w+)\s+as\s+\w+", s), on the strings the model uses.
StripImportAlias(s) ==
    CASE s = "helper_fn as hf" -> "helper_fn"
      [] OTHER -> s

\* n times .parent
RECURSIVE Climb(_, _)
Climb(p, n) == IF n = 0 THEN p ELSE Climb(Parent(p), n - 1)

\* joinpath of each segment in turn
RECURSIVE Descend(_, _)
Descend(p, segments) ==
    IF segments = <<>> THEN p ELSE Descend(JoinPath(p, Head(segments)), Tail(segments))

\* The strings s with `s in 'import'`.
SubstringsOfImport ==
    {"", "i", "m", "p", "o", "r", "t", "im", "mp", "po", "or", "rt", "imp", "mpo", "por",
     "ort", "impo", "mpor", "port", "impor", "mport", "import"}

\* lambda x: x[0] not in 'import'
KeepsAnyKind(kind) == TRUE

KeepsKind(kind) == kind \notin SubstringsOfImport

\* lambda x: x[1] in functions_str
NameRequestedAlways(name, functions_str) == TRUE

NameRequested(name, functions_str) == name \in Range(functions_str)

\* object_table.get(key, [['import', '', '']]) and the two filters.
LookupFiltered(table, key, import_all, functions_str) ==
    LET target == IF key \in DOMAIN table THEN table[key] ELSE <<Entry("import", "", "")>>
        no_imports == SelectSeq(target, LAMBDA x: KeepsKind(x[1]))
    IN  IF ~import_all
        THEN SelectSeq(no_imports, LAMBDA x: NameRequested(x[2], functions_str))
        ELSE no_imports

\* The statement's resolution if both lookups contributed.
ResolutionBoth(res_a, res_b) == res_a \o res_b

\* `if not target_file_modules:` the second lookup replaces an empty first one.
Resolution(res_a, res_b) == IF res_a # <<>> THEN res_a ELSE res_b

\* One pass of the loop body over an import statement, root_path being the
\* value the loop variable has when the statement is reached.
StatementPass(stmt, root_path, node_path, table) ==
    LET leading_dots_cnt == CountLeadingDots(Unparse(stmt))
        cleaned_path == ParseImportModule(stmt)
        skipped == cleaned_path = None \/ cleaned_path = ""
        segments == SplitDots(cleaned_path)
        new_root == Descend(Climb(root_path, leading_dots_cnt), segments)
        cur_absolute_path == Descend(Climb(Parent(node_path), leading_dots_cnt), segments)
        import_all == \E k \in 1..Len(stmt.names) : stmt.names[k].name = "*"
        functions_str == [k \in 1..Len(stmt.names) |-> StripImportAlias(stmt.names[k].name)]
        cand_a == WithSuffix(new_root, ".py")
        cand_b == WithSuffix(cur_absolute_path, ".py")
        res_a == LookupFiltered(table, cand_a, import_all, functions_str)
        res_b == LookupFiltered(table, cand_b, import_all, functions_str)
    IN  IF skipped
        THEN [skipped |-> TRUE, root_path |-> root_path, import_all |-> FALSE,
              functions_str |-> <<>>, cand_a |-> <<>>, cand_b |-> <<>>,
              res_a |-> <<>>, res_b |-> <<>>, resolution |-> <<>>]
        ELSE [skipped |-> FALSE, root_path |-> new_root, import_all |-> import_all,
              functions_str |-> functions_str, cand_a |-> cand_a, cand_b |-> cand_b,
              res_a |-> res_a, res_b |-> res_b,
              resolution |-> Resolution(res_a, res_b)]

\* The passes of the loop over the statements, in order.
RECURSIVE StatementPasses(_, _, _, _)
StatementPasses(stmts, root_path, node_path, table) ==
    IF stmts = <<>> THEN <<>>
    ELSE LET first == StatementPass(Head(stmts), root_path, node_path, table)
         IN  <<first>> \o StatementPasses(Tail(stmts), first.root_path, node_path, table)

\* node.relative_imports = reduce(lambda x, y: x + y, relative_imports)
AppendRelativeImports(old, relative_imports) == old \o ConcatAll(relative_imports)

AssignRelativeImports(old, relative_imports) == ConcatAll(relative_imports)

\* The flag if it were set only when something was assigned.
HasLinkWhenAssigned(relative_imports) == relative_imports # <<>>

\* node.has_link_relative_imports = True, after and outside `if relative_imports:`
HasLinkAfter(relative_imports) == TRUE

\* _import_relative_folder_modules: the node function of the resolution traversal.
ImportRelativeFolderModules(node, table, root_path) ==
    LET passes == StatementPasses(node.objects.import_, root_path, node.path, table)
        made == SelectSeq(passes, LAMBDA t: ~t.skipped)
        relative_imports == [k \in 1..Len(made) |-> made[k].resolution]
    IN  [node EXCEPT
            !.relative_imports = IF relative_imports # <<>>
                                 THEN AssignRelativeImports(@, relative_imports)
                                 ELSE @,
            !.has_link_relative_imports = HasLinkAfter(relative_imports)]

-----------------------------------------------------------------------------
(* Whole traversals: traverse_index_node and _update_node_items visit the nodes
   in order and an exception of a visit ends the traversal there. *)

RECURSIVE ExtractFrom(_, _, _)
ExtractFrom(fsx, tree, order) ==
    IF order = <<>> THEN [raised |-> "", tree |-> tree]
    ELSE LET r == ExtractNodeObjects(fsx, tree[Head(order)])
         IN  IF r.raised # "" THEN [raised |-> r.raised, tree |-> tree]
             ELSE ExtractFrom(fsx, [tree EXCEPT ![Head(order)] = r.node], Tail(order))

RECURSIVE UpdateNodeItemsFrom(_, _, _)
UpdateNodeItemsFrom(tree, table, order) ==
    IF order = <<>> THEN [raised |-> "", table |-> table]
    ELSE LET r == UpdateNodeItem(table, tree[Head(order)])
         IN  IF r.raised # "" THEN [raised |-> r.raised, table |-> table]
             ELSE UpdateNodeItemsFrom(tree, r.table, Tail(order))

RECURSIVE ResolveFrom(_, _, _)
ResolveFrom(tree, table, order) ==
    IF order = <<>> THEN tree
    ELSE ResolveFrom([tree EXCEPT ![Head(order)] =
                        ImportRelativeFolderModules(@, table, repo_path)],
                     table, Tail(order))

-----------------------------------------------------------------------------
(* The operations of PythonRepoIndexTree, called in any order *)

Counters == <<folder_count, file_count, repo_size>>

Fresh ==
    /\ fs \in Snapshots
    /\ file_tree = NoTree
    /\ object_table = EmptyMap
    /\ folder_count = -1
    /\ file_count = -1
    /\ repo_size = -1
    /\ todo = <<>>
    /\ raised = ""
    /\ snip = <<>>

Init == Fresh /\ pc = "api"

\* A traversal of file_tree = None fails on the first attribute it reads.
OnNoTree ==
    /\ pc = "api"
    /\ file_tree = NoTree
    /\ raised' = "AttributeError"
    /\ UNCHANGED <<fs, file_tree, object_table, Counters, pc, todo, snip>>

create_tree ==
    /\ pc = "api"
    /\ file_tree' = CreateTree(fs).tree
    /\ raised' = CreateTree(fs).raised
    /\ UNCHANGED <<fs, object_table, Counters, pc, todo, snip>>

calculate_repo_size ==
    /\ pc = "api"
    /\ file_tree # NoTree
    /\ folder_count' = CalculateRepoSize(file_tree).folder_count
    /\ file_count' = CalculateRepoSize(file_tree).file_count
    /\ repo_size' = CalculateRepoSize(file_tree).repo_size
    /\ raised' = ""
    /\ UNCHANGED <<fs, file_tree, object_table, pc, todo, snip>>

extract_node_objects ==
    /\ pc = "api"
    /\ file_tree # NoTree
    /\ LET r == ExtractFrom(fs, file_tree, TraversalOrder(file_tree))
       IN  file_tree' = r.tree /\ raised' = r.raised
    /\ UNCHANGED <<fs, object_table, Counters, pc, todo, snip>>

build_object_table ==
    /\ pc = "api"
    /\ file_tree # NoTree
    /\ LET r == UpdateNodeItemsFrom(file_tree, object_table, TraversalOrder(file_tree))
       IN  object_table' = r.table /\ raised' = r.raised
    /\ UNCHANGED <<fs, file_tree, Counters, pc, todo, snip>>

update_relative_imports ==
    /\ pc = "api"
    /\ file_tree # NoTree
    /\ file_tree' = ResolveFrom(file_tree, object_table, TraversalOrder(file_tree))
    /\ raised' = ""
    /\ UNCHANGED <<fs, object_table, Counters, pc, todo, snip>>

\* create_snippets raises NotImplementedError.
create_snippets ==
    /\ pc = "api"
    /\ raised' = "NotImplementedError"
    /\ UNCHANGED <<fs, file_tree, object_table, Counters, pc, todo, snip>>

Next ==
    \/ OnNoTree
    \/ create_tree
    \/ calculate_repo_size
    \/ extract_node_objects
    \/ build_object_table
    \/ update_relative_imports
    \/ create_snippets

Spec == Init /\ [][Next]_vars

-----------------------------------------------------------------------------
(* PythonRepoIndexTree.parse_repo, one statement or one node visit per step *)

\* parse_repo with update_relative_imports called before build_object_table.
StageAfterTableLast(stage) ==
    CASE stage = "create_tree" -> "calculate_repo_size"
      [] stage = "calculate_repo_size" -> "print_tree"
      [] stage = "print_tree" -> "extract_node_objects"
      [] stage = "extract_node_objects" -> "update_relative_imports"
      [] stage = "update_relative_imports" -> "build_object_table"
      [] stage = "build_object_table" -> "done"
      [] OTHER -> "done"

\* The statement of parse_repo that follows a statement.
StageAfter(stage) ==
    CASE stage = "create_tree" -> "calculate_repo_size"
      [] stage = "calculate_repo_size" -> "print_tree"
      [] stage = "print_tree" -> "extract_node_objects"
      [] stage = "extract_node_objects" -> "build_object_table"
      [] stage = "build_object_table" -> "update_relative_imports"
      [] stage = "update_relative_imports" -> "done"
      [] OTHER -> "done"

TraversalStages == {"extract_node_objects", "build_object_table", "update_relative_imports"}

\* The nodes a statement has to visit when it starts.
Entering(stage, tree) == IF stage \in TraversalStages THEN TraversalOrder(tree) ELSE <<>>

Running(stage) == pc = stage /\ raised = ""

\* The statement at pc returned: control moves to the next one.
Return(tree) ==
    /\ pc' = StageAfter(pc)
    /\ todo' = Entering(StageAfter(pc), tree)

\* One visit of the running traversal ended; the traversal returns after the last.
Visited(tree) ==
    IF Tail(todo) = <<>>
    THEN Return(tree)
    ELSE pc' = pc /\ todo' = Tail(todo)

\* An exception leaves parse_repo: nothing after it runs.
Raise(exception) ==
    /\ raised' = exception
    /\ UNCHANGED <<pc, todo>>

RunInit == Fresh /\ pc = "create_tree"

RunCreateTree ==
    /\ Running("create_tree")
    /\ file_tree' = CreateTree(fs).tree
    /\ IF CreateTree(fs).raised # ""
       THEN Raise(CreateTree(fs).raised)
       ELSE raised' = raised /\ Return(file_tree')
    /\ UNCHANGED <<fs, object_table, Counters, snip>>

RunCalculateRepoSize ==
    /\ Running("calculate_repo_size")
    /\ folder_count' = CalculateRepoSize(file_tree).folder_count
    /\ file_count' = CalculateRepoSize(file_tree).file_count
    /\ repo_size' = CalculateRepoSize(file_tree).repo_size
    /\ Return(file_tree)
    /\ UNCHANGED <<fs, file_tree, object_table, raised, snip>>

\* print_tree only prints.
RunPrintTree ==
    /\ Running("print_tree")
    /\ Return(file_tree)
    /\ UNCHANGED <<fs, file_tree, object_table, Counters, raised, snip>>

RunExtractNode ==
    /\ Running("extract_node_objects")
    /\ LET r == ExtractNodeObjects(fs, file_tree[Head(todo)])
       IN  IF r.raised # ""
           THEN Raise(r.raised) /\ UNCHANGED file_tree
           ELSE /\ file_tree' = [file_tree EXCEPT ![Head(todo)] = r.node]
                /\ raised' = raised
                /\ Visited(file_tree')
    /\ UNCHANGED <<fs, object_table, Counters, snip>>

RunUpdateNodeItem ==
    /\ Running("build_object_table")
    /\ LET r == UpdateNodeItem(object_table, file_tree[Head(todo)])
       IN  IF r.raised # ""
           THEN Raise(r.raised) /\ UNCHANGED object_table
           ELSE /\ object_table' = r.table
                /\ raised' = raised
                /\ Visited(file_tree)
    /\ UNCHANGED <<fs, file_tree, Counters, snip>>

RunResolveNode ==
    /\ Running("update_relative_imports")
    /\ file_tree' = [file_tree EXCEPT ![Head(todo)] =
                        ImportRelativeFolderModules(@, object_table, repo_path)]
    /\ Visited(file_tree')
    /\ UNCHANGED <<fs, object_table, Counters, raised, snip>>

RunNext ==
    \/ RunCreateTree
    \/ RunCalculateRepoSize
    \/ RunPrintTree
    \/ RunExtractNode
    \/ RunUpdateNodeItem
    \/ RunResolveNode

RunSpec == RunInit /\ [][RunNext]_vars

-----------------------------------------------------------------------------
(* What the properties below speak of *)

APy == JoinPath(PkgDir, "a.py")

PkgHelperPy == JoinPath(PkgDir, "helper.py")

RootHelperPy == JoinPath(repo_path, "helper.py")

FileNodes == {p \in DOMAIN file_tree : file_tree[p].is_file}

DirNodes == {p \in DOMAIN file_tree : ~file_tree[p].is_file}

BucketSizes(objects) ==
    Len(objects.import_) + Len(objects.function_) + Len(objects.variable_)
    + Len(objects.class_)

Extracted(p) == file_tree[p].objects.cls = "PythonFileObjects"

\* parse_repo is over: it returned or an exception left it.
RunEnded == pc = "done" \/ raised # ""

\* The snapshot lists a file of this name in this directory.
Lists(d, name) ==
    /\ fs.exists
    /\ \E k \in 1..Len(fs.listing[d]) : ItemName(fs.listing[d][k]) = name

\* The file defines a function of this name.
Defines(f, name) ==
    /\ fs.content[f].ok
    /\ \E k \in 1..Len(fs.content[f].body) :
            /\ fs.content[f].body[k].type = "FunctionDef"
            /\ fs.content[f].body[k].name = name

\* a.py is one statement, a one-dot relative import of its sibling module helper:
\* `from . import helper` or `from .helper import *`.
OneDotImportOfHelper ==
    /\ fs.exists
    /\ fs.content[APy].ok
    /\ fs.content[APy].body \in
          { <<ImportFrom(None, 1, <<Alias("helper", "")>>)>>,
            <<ImportFrom("helper", 1, <<Alias("*", "")>>)>> }

\* The entries of a resolved-import list that are a function of this name
\* declared in this file.
DeclarationsOf(entries, name, f) ==
    {k \in 1..Len(entries) :
        /\ entries[k][1] = "function"
        /\ entries[k][2] = name
        /\ entries[k][3].src[1] = f}

-----------------------------------------------------------------------------
(* C1: whatever operations have been called and in whatever order, a file node
   has no children, and a directory node has four empty buckets and an empty
   resolved-import list. *)
C1_NodeShape ==
    \A p \in DOMAIN file_tree :
        /\ file_tree[p].is_file => file_tree[p].children = <<>>
        /\ ~file_tree[p].is_file =>
              /\ BucketSizes(file_tree[p].objects) = 0
              /\ file_tree[p].relative_imports = <<>>

\* Every operation has acted: a directory with children has been visited by the
\* resolver, and a file holds declarations and resolved imports.
C1_Witness ==
    /\ \E d \in DirNodes :
          file_tree[d].children # <<>> /\ file_tree[d].has_link_relative_imports
    /\ \E f \in FileNodes :
          BucketSizes(file_tree[f].objects) > 0 /\ file_tree[f].relative_imports # <<>>
    /\ repo_size > 0
    /\ object_table # EmptyMap

-----------------------------------------------------------------------------
(* C2: when root/pkg/a.py imports its sibling module helper with one dot and
   root/pkg/helper.py defines helper_fn, a run that reaches its end leaves
   helper_fn's declaration (the one of root/pkg/helper.py) among the resolved
   imports of a.py. *)
C2_SiblingResolved ==
    (/\ pc = "done"
     /\ OneDotImportOfHelper
     /\ Lists(PkgDir, "helper.py")
     /\ Defines(PkgHelperPy, "helper_fn"))
    => DeclarationsOf(file_tree[APy].relative_imports, "helper_fn", PkgHelperPy) # {}

-----------------------------------------------------------------------------
(* C3: when root/pkg/helper.py is absent and root/helper.py defines helper_fn,
   the one-dot import of helper in root/pkg/a.py resolves to that declaration,
   and it is the lookup of the root-relative candidate (A) that yields it. *)
C3_RootCandidateFinds ==
    (/\ pc = "done"
     /\ OneDotImportOfHelper
     /\ ~Lists(PkgDir, "helper.py")
     /\ Lists(repo_path, "helper.py")
     /\ Defines(RootHelperPy, "helper_fn"))
    => LET passes == StatementPasses(file_tree[APy].objects.import_, repo_path, APy,
                                     object_table)
       IN  /\ DeclarationsOf(file_tree[APy].relative_imports, "helper_fn", RootHelperPy) # {}
           /\ Len(passes) = 1
           /\ DeclarationsOf(passes[1].res_a, "helper_fn", RootHelperPy) # {}

-----------------------------------------------------------------------------
(* C4 *)

TableOf(key) == IF key \in DOMAIN object_table THEN object_table[key] ELSE <<>>

RequestedNames(stmt) == {stmt.names[k].name : k \in 1..Len(stmt.names)}

IsWildcard(stmt) == "*" \in RequestedNames(stmt)

Exposed(stmt, key) ==
    IF IsWildcard(stmt)
    THEN SelectSeq(TableOf(key), LAMBDA x: x[1] # "import")
    ELSE SelectSeq(TableOf(key), LAMBDA x: x[1] # "import" /\ x[2] \in RequestedNames(stmt))

ExposedTo(stmt, pass) ==
    IF Exposed(stmt, pass.cand_a) # <<>>
    THEN Exposed(stmt, pass.cand_a)
    ELSE Exposed(stmt, pass.cand_b)

PassesOf(p) ==
    StatementPasses(file_tree[p].objects.import_, repo_path, p, object_table)

(* C4: once a file's imports are resolved, its resolved-import list is the
   concatenation, over its import statements that name a module, of what the
   statement exposes of its target file: for a wildcard import every entry of
   the target that is not tagged import, in table order; otherwise the entries
   not tagged import whose name the statement requests.  The target is candidate
   (A) when that exposes anything, else candidate (B).  No resolved-import list
   holds an entry tagged import. *)
C4_Resolution ==
    /\ \A p \in FileNodes :
          file_tree[p].has_link_relative_imports =>
             LET stmts == file_tree[p].objects.import_
                 kept == SelectSeq([k \in 1..Len(stmts) |-> k],
                                   LAMBDA k: ~PassesOf(p)[k].skipped)
             IN  file_tree[p].relative_imports =
                    ConcatAll([j \in 1..Len(kept) |->
                                  ExposedTo(stmts[kept[j]], PassesOf(p)[kept[j]])])
    /\ \A p \in DOMAIN file_tree :
          \A k \in 1..Len(file_tree[p].relative_imports) :
             file_tree[p].relative_imports[k][1] # "import"

\* A resolved file holds a wildcard import that dropped an import-tagged entry
\* of its target and kept the rest, and a named import that kept fewer.
C4_Witness ==
    \E p \in FileNodes :
        /\ file_tree[p].has_link_relative_imports
        /\ \E k1, k2 \in 1..Len(file_tree[p].objects.import_) :
            LET s1 == file_tree[p].objects.import_[k1]
                s2 == file_tree[p].objects.import_[k2]
                t1 == PassesOf(p)[k1]
                t2 == PassesOf(p)[k2]
            IN  /\ IsWildcard(s1) /\ ~t1.skipped /\ t1.resolution # <<>>
                /\ \E x \in Range(TableOf(t1.cand_b)) : x[1] = "import"
                /\ ~IsWildcard(s2) /\ ~t2.skipped /\ t2.resolution # <<>>
                /\ Len(t2.resolution) < Len(t1.resolution)
                /\ Len(file_tree[p].relative_imports)
                      = Len(t1.resolution) + Len(t2.resolution)

-----------------------------------------------------------------------------
(* C5: a second update_relative_imports on the tree and the table the first one
   left changes nothing: every node keeps its resolved-import list, entry for
   entry. *)
C5_Idempotent ==
    [][update_relative_imports =>
          ResolveFrom(file_tree', object_table', TraversalOrder(file_tree')) = file_tree']_vars

\* The resolver has run over a tree in which a file resolved several entries.
C5_Witness ==
    /\ file_tree # NoTree
    /\ \A p \in DOMAIN file_tree : file_tree[p].has_link_relative_imports
    /\ \E p \in FileNodes : Len(file_tree[p].relative_imports) >= 2

-----------------------------------------------------------------------------
(* C6 *)

\* build_object_table has been called and has ended.
TableStageEnded ==
    \/ pc \in {"update_relative_imports", "done"}
    \/ pc = "build_object_table" /\ raised # ""

(* C6: once extraction is over and build_object_table has ended, every file node
   has a table entry under its path, as long as the sum of its four buckets,
   and no directory node's path is a key. *)
C6_TableRoundTrip ==
    TableStageEnded =>
        /\ \A p \in FileNodes :
              /\ p \in DOMAIN object_table
              /\ Len(object_table[p]) = BucketSizes(file_tree[p].objects)
        /\ \A d \in DirNodes : d \notin DOMAIN object_table

-----------------------------------------------------------------------------
(* C7: with a.py unparsable and a valid helper.py in the tree, the run ends
   without an exception, a.py holds no declarations and has an empty table
   entry, and the valid file has a populated one. *)
C7_SoftFail ==
    (/\ RunEnded
     /\ fs.exists
     /\ ~fs.content[APy].ok
     /\ \E h \in {PkgHelperPy, RootHelperPy} :
            Lists(Parent(h), "helper.py") /\ fs.content[h].ok)
    => /\ raised = ""
       /\ BucketSizes(file_tree[APy].objects) = 0
       /\ APy \in DOMAIN object_table /\ object_table[APy] = <<>>
       /\ \A h \in {PkgHelperPy, RootHelperPy} :
             Lists(Parent(h), "helper.py") =>
                h \in DOMAIN object_table /\ object_table[h] # <<>>

-----------------------------------------------------------------------------
(* C9: in a run, a node's imports are resolved only when every file node has
   been extracted and has its table entry; the table receives an entry only
   when every file node has been extracted; a node is extracted only after
   size accounting. *)
C9_StageOrder ==
    /\ (\E p \in DOMAIN file_tree :
            file_tree[p].has_link_relative_imports \/ file_tree[p].relative_imports # <<>>)
       => \A f \in FileNodes : Extracted(f) /\ f \in DOMAIN object_table
    /\ object_table # EmptyMap => \A f \in FileNodes : Extracted(f)
    /\ (\E f \in FileNodes : Extracted(f)) => repo_size = Cardinality(DOMAIN file_tree)

\* Resolution is under way: a file has resolved entries and a node is still to visit.
C9_Witness ==
    /\ pc = "update_relative_imports"
    /\ \E p \in FileNodes : file_tree[p].relative_imports # <<>>
    /\ \E p \in DOMAIN file_tree : ~file_tree[p].has_link_relative_imports

-----------------------------------------------------------------------------
(* C10 *)

\* str.startswith("_") on the names the model uses.
StartsWithUnderscore(name) == name \in {"_h", "_private"}

PublicCount(objects) ==
    Len(SelectSeq(objects.function_ \o objects.class_,
                  LAMBDA d: ~StartsWithUnderscore(d.name)))

(* C10: a run that returns has assembled, for every file, one snippet record
   per public function or class declaration. *)
C10_SnippetsAssembled ==
    (pc = "done" /\ raised = "") =>
        \A f \in FileNodes : Len(file_tree[f].snippet) = PublicCount(file_tree[f].objects)

-----------------------------------------------------------------------------
(* _parser_utils.py: the Snippet Assembler.  Here a text is the sequence of its
   characters, so that substring tests and str.replace are computed. *)

\* The longest body of the public declaration the model draws.
MaxBodyLen == 3

Texts(alphabet, n) == UNION {[1..k -> alphabet] : k \in 0..n}

\* sub occurs in text at position k.
OccursAt(sub, text, k) ==
    /\ k >= 1
    /\ k + Len(sub) - 1 <= Len(text)
    /\ SubSeq(text, k, k + Len(sub) - 1) = sub

\* sub in text
Contains(text, sub) == \E k \in 1..(Len(text) + 1) : OccursAt(sub, text, k)

\* str.replace(old, new), old not empty: the occurrences are taken left to right
\* and do not overlap.
RECURSIVE Replace(_, _, _)
Replace(text, old, new) ==
    IF text = <<>> THEN <<>>
    ELSE IF OccursAt(old, text, 1)
    THEN new \o Replace(SubSeq(text, Len(old) + 1, Len(text)), old, new)
    ELSE <<Head(text)>> \o Replace(Tail(text), old, new)

Declaration(type, name, body) == [type |-> type, name |-> name, body |-> body]

\* ast.unparse of a function or class definition.
Render(node) ==
    IF node.type = "FunctionDef"
    THEN <<"d", "e", "f", " ">> \o node.name \o <<"(", ")", ":", "\n">> \o node.body
    ELSE <<"c", "l", "a", "s", "s", " ">> \o node.name \o <<":", "\n">> \o node.body

\* ast.unparse of a list of definitions: each after the first starts on a new
\* line after a blank one.
RECURSIVE RenderList(_)
RenderList(nodes) ==
    IF nodes = <<>> THEN <<>>
    ELSE IF Len(nodes) = 1 THEN Render(nodes[1])
    ELSE Render(nodes[1]) \o <<"\n", "\n">> \o RenderList(Tail(nodes))

\* ast.unparse of `from <module> import <name>`.
RenderImport(imp) ==
    <<"f", "r", "o", "m", " ">> \o imp.module \o <<" ", "i", "m", "p", "o", "r", "t", " ">>
    \o imp.name

\* _filter_class_and_functions: the pool and its public part.
PoolObjects(body) == SelectSeq(body, LAMBDA node: node.type \in {"FunctionDef", "ClassDef"})

IsPublic(node) == node.name = <<>> \/ node.name[1] # "_"

PublicObjects(body) == SelectSeq(PoolObjects(body), IsPublic)

\* import_alias_dict: module -> module + ' ' + the statement, for the imports
\* that name a module; a later statement of the same module replaces the value
\* and keeps the key's place.
RECURSIVE ImportAliasDict(_)
ImportAliasDict(imports) ==
    IF imports = <<>> THEN <<>>
    ELSE LET before == ImportAliasDict(Front(imports))
             imp == Last(imports)
             item == [alias |-> imp.module,
                      alias_str |-> imp.module \o <<" ">> \o RenderImport(imp)]
             same == {k \in 1..Len(before) : before[k].alias = imp.module}
         IN  IF imp.module = <<>> THEN before
             ELSE IF same # {} THEN [k \in 1..Len(before) |->
                                        IF k \in same THEN item ELSE before[k]]
             ELSE Append(before, item)

\* for alias, alias_str in import_alias.items(): node_str = node_str.replace(...)
RECURSIVE ReplaceAliases(_, _)
ReplaceAliases(node_str, import_alias) ==
    IF import_alias = <<>> THEN node_str
    ELSE ReplaceAliases(Replace(node_str, Head(import_alias).alias,
                                Head(import_alias).alias_str),
                        Tail(import_alias))

\* The test of the inner loop of _find_used_functions.
IsUsedIn(f, node, node_str) == Contains(node_str, f.name) /\ f.name # node.name

\* _find_used_functions: for each object, the pool objects its text names.
FindUsedFunctions(pool_obj, public_obj, import_alias) ==
    [k \in 1..Len(public_obj) |->
        LET node == public_obj[k]
            node_str == ReplaceAliases(Render(node), import_alias)
        IN  SelectSeq(pool_obj, LAMBDA f: IsUsedIn(f, node, node_str))]

Min(a, b) == IF a <= b THEN a ELSE b

\* The text of one joined snippet.
JoinTargetFirst(i, j) == Render(i) \o <<"\n", "\n">> \o RenderList(j)

JoinOne(i, j) == RenderList(j) \o <<"\n", "\n">> \o Render(i)

\* _join_code_snippets: zip stops at the shorter list.
JoinCodeSnippets(public_objects, used_functions) ==
    [k \in 1..Min(Len(public_objects), Len(used_functions)) |->
        JoinOne(public_objects[k], used_functions[k])]

-----------------------------------------------------------------------------
(* The assembler applied to one file: its definitions, its imports (as
   _filter_imports leaves them) and the objects its imports pull in. *)

BodyAlphabet == {"_", "u", "h"}

Imported(module, name) == [module |-> module, name |-> name]

PrivateNames == {<<"_", "h">>, <<"_", "u", "h">>}

ImportLists ==
    { <<>>,
      <<Imported(<<"_", "u">>, <<"y">>)>>,
      <<Imported(<<"u">>, <<"u">>)>>,
      <<Imported(<<"_", "u">>, <<"y">>), Imported(<<"_", "u">>, <<"h">>)>> }

\* What _import_relative_folder_modules returns for the imports: nothing when
\* no target file is found, else the function one of the statements names.
AdditionalObjectsOf(imports) ==
    {<<>>} \cup
    { <<Declaration("FunctionDef", imports[k].name, <<"_", "h">>)>> : k \in 1..Len(imports) }

\* The file: a public function g, a private function, an assignment and a
\* public class, in either order.
FileBodies ==
    { IF rev THEN Reverse(body) ELSE body :
        rev \in BOOLEAN,
        body \in { << Declaration("FunctionDef", <<"g">>, text),
                      Declaration("FunctionDef", name, <<"1">>),
                      Declaration("Assign", <<"x">>, <<>>),
                      Declaration("ClassDef", <<"h">>, <<>>) >> :
                   text \in Texts(BodyAlphabet, MaxBodyLen), name \in PrivateNames } }

SnipVars == <<fs, file_tree, object_table, Counters, pc, todo, raised>>

SnipInit ==
    /\ fs = NoRoot
    /\ file_tree = NoTree
    /\ object_table = EmptyMap
    /\ folder_count = -1
    /\ file_count = -1
    /\ repo_size = -1
    /\ pc = "snippets"
    /\ todo = <<>>
    /\ raised = ""
    /\ \E body \in FileBodies, imports \in ImportLists :
       \E additional \in AdditionalObjectsOf(imports) :
          snip = [stage |-> "loaded", body |-> body, imports |-> imports,
                  additional_objects |-> additional, import_alias |-> <<>>,
                  pool_objects |-> <<>>, public_objects |-> <<>>,
                  used_functions |-> <<>>, joined_snippets |-> <<>>]

\* import_alias_dict and _filter_class_and_functions
SnipFilter ==
    /\ pc = "snippets" /\ snip.stage = "loaded"
    /\ snip' = [snip EXCEPT !.stage = "filtered",
                            !.import_alias = ImportAliasDict(snip.imports),
                            !.pool_objects = PoolObjects(snip.body),
                            !.public_objects = PublicObjects(snip.body)]
    /\ UNCHANGED SnipVars

\* _find_used_functions(pool_objects, public_objects + additional_objects, ...)
SnipFindUsed ==
    /\ pc = "snippets" /\ snip.stage = "filtered"
    /\ snip' = [snip EXCEPT !.stage = "traced",
                            !.used_functions =
                                FindUsedFunctions(snip.pool_objects,
                                                  snip.public_objects \o snip.additional_objects,
                                                  snip.import_alias)]
    /\ UNCHANGED SnipVars

\* _join_code_snippets(public_objects, used_functions)
SnipJoin ==
    /\ pc = "snippets" /\ snip.stage = "traced"
    /\ snip' = [snip EXCEPT !.stage = "joined",
                            !.joined_snippets =
                                JoinCodeSnippets(snip.public_objects, snip.used_functions)]
    /\ UNCHANGED SnipVars

SnipNext ==
    \/ SnipFilter
    \/ SnipFindUsed
    \/ SnipJoin

SnipSpec == SnipInit /\ [][SnipNext]_vars

-----------------------------------------------------------------------------
(* C8 *)

\* The private local functions of the file.
PrivateLocals ==
    {h \in Range(snip.pool_objects) : h.type = "FunctionDef" /\ ~IsPublic(h)}

\* The snippet ends with the target's own text and holds dep's text before it.
HoldsBefore(snippet, dep, own) ==
    LET own_at == Len(snippet) - Len(own) + 1
    IN  /\ OccursAt(own, snippet, own_at)
        /\ \E k \in 1..Len(snippet) : OccursAt(dep, snippet, k) /\ k + Len(dep) <= own_at

-----------------------------------------------------------------------------
(* RepoTreeIndexFactory.create_repo_tree: the call main makes before any    *)
(* operation of the tree.  While pc = "main" no tree object exists yet.     *)

\* The registry of language backends.
repo_types == [k \in {"python"} |-> "PythonRepoIndexTree"]

\* The keys a caller may ask for; "python" is the default argument.
RepoTypeKeys == {"python", "java", ""}

\* A call with a key the registry has everywhere (a registry with a default).
RegisteredAlways(repo_type) == TRUE

\* repo_types[repo_type] succeeds.
Registered(repo_type) == repo_type \in DOMAIN repo_types

\* try: return repo_types[repo_type](repo_path)
\* except KeyError: raise ValueError(...)
CreateRepoTree(repo_type) ==
    IF Registered(repo_type)
    THEN [returned |-> repo_types["python"], raised |-> ""]
    ELSE [returned |-> None, raised |-> "ValueError"]

FactoryInit == Fresh /\ pc = "main"

\* On success __init__ has assigned every field of the new object; on failure
\* there is no object and pc never becomes "api".
create_repo_tree(repo_type) ==
    /\ pc = "main"
    /\ LET r == CreateRepoTree(repo_type)
       IN  /\ raised' = r.raised
           /\ pc' = IF r.returned = None THEN "failed" ELSE "api"
    /\ file_tree' = NoTree
    /\ object_table' = EmptyMap
    /\ folder_count' = -1
    /\ file_count' = -1
    /\ repo_size' = -1
    /\ UNCHANGED <<fs, todo, snip>>

FactoryNext ==
    \/ \E repo_type \in RepoTypeKeys : create_repo_tree(repo_type)
    \/ Next

FactorySpec == FactoryInit /\ [][FactoryNext]_vars

\* C11: a call of create_repo_tree with an unregistered key ends in ValueError
\* with no tree object returned, so that no traversal, extraction or
\* resolution has run or can run afterwards; a call with a registered key
\* returns an object whose file_tree is unset and whose object table is empty.
C11_FactoryKey ==
    [][/\ pc = "failed" => FALSE
       /\ \A k \in RepoTypeKeys :
            create_repo_tree(k) =>
                /\ file_tree' = NoTree
                /\ object_table' = EmptyMap
                /\ Counters' = <<-1, -1, -1>>
                /\ IF k \in DOMAIN repo_types
                   THEN pc' = "api" /\ raised' = ""
                   ELSE pc' = "failed" /\ raised' = "ValueError"]_vars

\* The factory has been asked for an unregistered key and has failed.
C11_Witness ==
    /\ pc = "failed"
    /\ raised = "ValueError"
    /\ file_tree = NoTree
    /\ object_table = EmptyMap

-----------------------------------------------------------------------------
(* Resolution candidates, statement by statement *)

\* The path a climb-then-descend from a start directory gives a statement.
CandidateFrom(start, stmt) ==
    WithSuffix(Descend(Climb(start, CountLeadingDots(Unparse(stmt))),
                       SplitDots(ParseImportModule(stmt))),
               ".py")

\* C12: for every import statement of a resolved file that names a module,
\* whatever its position, candidate (A) is the climb-then-descend from the
\* configured repository root and candidate (B) the same from the importing
\* file's own directory; the statements before it have no part in either.
C12_CandidatesFromRoot ==
    \A p \in FileNodes :
        file_tree[p].has_link_relative_imports =>
            \A k \in 1..Len(file_tree[p].objects.import_) :
                ~PassesOf(p)[k].skipped =>
                    /\ PassesOf(p)[k].cand_a
                          = CandidateFrom(repo_path, file_tree[p].objects.import_[k])
                    /\ PassesOf(p)[k].cand_b
                          = CandidateFrom(Parent(p), file_tree[p].objects.import_[k])

-----------------------------------------------------------------------------
\* C13: in a run, a statement's resolution is what candidate (A) exposes when
\* that is not empty, and then (B) adds nothing; otherwise it is what
\* candidate (B) exposes, the empty list when neither exposes anything.  The
\* resolver raises nothing, a file's resolved-import list is the concatenation
\* of its statements' resolutions in statement order, and a run that ends has
\* resolved every node.
C13_Fallback ==
    /\ raised # "" => pc \notin {"update_relative_imports", "done"}
    /\ \A p \in FileNodes :
          file_tree[p].has_link_relative_imports =>
             LET stmts == file_tree[p].objects.import_
                 passes == PassesOf(p)
             IN  /\ \A k \in 1..Len(stmts) :
                       ~passes[k].skipped =>
                          LET a == Exposed(stmts[k], passes[k].cand_a)
                              b == Exposed(stmts[k], passes[k].cand_b)
                          IN  /\ a # <<>> => passes[k].resolution = a
                              /\ a = <<>> => passes[k].resolution = b
                 /\ file_tree[p].relative_imports
                       = ConcatAll([k \in 1..Len(stmts) |-> passes[k].resolution])
    /\ pc = "done" =>
          \A p \in DOMAIN file_tree : file_tree[p].has_link_relative_imports

\* A run has ended in which a statement of one file found nothing under either
\* candidate, and a statement of a file found its entries under (B) alone.
C13_Witness ==
    /\ pc = "done"
    /\ raised = ""
    /\ \E q \in FileNodes : \E j \in 1..Len(file_tree[q].objects.import_) :
          /\ ~PassesOf(q)[j].skipped
          /\ Exposed(file_tree[q].objects.import_[j], PassesOf(q)[j].cand_a) = <<>>
          /\ Exposed(file_tree[q].objects.import_[j], PassesOf(q)[j].cand_b) = <<>>
          /\ \E p \in FileNodes \ {q} : \E k \in 1..Len(file_tree[p].objects.import_) :
                /\ ~PassesOf(p)[k].skipped
                /\ Exposed(file_tree[p].objects.import_[k], PassesOf(p)[k].cand_a) = <<>>
                /\ Exposed(file_tree[p].objects.import_[k], PassesOf(p)[k].cand_b) # <<>>
                /\ file_tree[p].relative_imports # <<>>

-----------------------------------------------------------------------------
\* C14: when the snippets of a file have been joined, there is one snippet per
\* public local declaration, and every declaration pulled in through the
\* file's imports whose name occurs in the rendered text of a public
\* declaration, before and after the alias substitution, and is not that
\* declaration's own name, is among that snippet's dependencies and has its
\* text in the snippet, as every such local declaration has.
C14_ImportedInPool ==
    snip.stage = "joined" =>
        /\ Len(snip.joined_snippets) = Len(snip.public_objects)
        /\ \A k \in 1..Len(snip.public_objects) :
              \A d \in Range(snip.pool_objects) \cup Range(snip.additional_objects) :
                 LET node == snip.public_objects[k]
                 IN  (/\ Contains(Render(node), d.name)
                      /\ Contains(ReplaceAliases(Render(node), snip.import_alias), d.name)
                      /\ d.name # node.name)
                     => /\ d \in Range(snip.used_functions[k])
                        /\ HoldsBefore(snip.joined_snippets[k], Render(d), Render(node))

-----------------------------------------------------------------------------
\* The statements of a file with a module to look up, by position.
LookedUp(p) ==
    SelectSeq([k \in 1..Len(file_tree[p].objects.import_) |-> k],
              LAMBDA k: ~PassesOf(p)[k].skipped)

\* The table has no entry under either candidate of the statement.
Unserved(p, k) ==
    /\ PassesOf(p)[k].cand_a \notin DOMAIN object_table
    /\ PassesOf(p)[k].cand_b \notin DOMAIN object_table

\* C15: update_relative_imports, called at any point after the tree exists and
\* whatever the object table holds, raises nothing and flags every node as
\* resolved; a statement neither of whose candidates has a table entry adds
\* nothing to its file's resolved-import list, which is the concatenation of
\* what the other statements expose (the empty list when the table is empty).
C15_PartialTable ==
    [][update_relative_imports =>
          /\ raised' = ""
          /\ \A p \in DOMAIN file_tree' : file_tree'[p].has_link_relative_imports
          /\ \A p \in DOMAIN file_tree :
                LET stmts == file_tree[p].objects.import_
                    served == SelectSeq(LookedUp(p), LAMBDA k: ~Unserved(p, k))
                IN  file_tree'[p].relative_imports =
                       ConcatAll([j \in 1..Len(served) |->
                                     ExposedTo(stmts[served[j]], PassesOf(p)[served[j]])])
          /\ object_table = EmptyMap =>
                \A p \in DOMAIN file_tree : file_tree'[p].relative_imports = <<>>]_vars

\* The resolver has run over an extracted tree while the table lacked the entry
\* of a file of the tree that an import statement of another file looks up.
C15_Witness ==
    /\ file_tree # NoTree
    /\ raised = ""
    /\ \A p \in DOMAIN file_tree : file_tree[p].has_link_relative_imports
    /\ \E p \in FileNodes : \E k \in 1..Len(file_tree[p].objects.import_) :
          /\ Extracted(p)
          /\ ~PassesOf(p)[k].skipped
          /\ Unserved(p, k)
          /\ \E t \in FileNodes \ {p} :
                /\ t \in {PassesOf(p)[k].cand_a, PassesOf(p)[k].cand_b}
                /\ Extracted(t)
                /\ BucketSizes(file_tree[t].objects) > 0
          /\ file_tree[p].relative_imports = <<>>

-----------------------------------------------------------------------------
\* The positions of a parsable file's statements that are from-imports without
\* a module part, such as `from . import x`.
ModulelessImports(p) ==
    IF p \in DOMAIN fs.content /\ fs.content[p].ok
    THEN {k \in 1..Len(fs.content[p].body) :
             /\ fs.content[p].body[k].type = "ImportFrom"
             /\ fs.content[p].body[k].module = None}
    ELSE {}

\* C16: in a run, the extraction of a file that holds a from-import without a
\* module part raises nothing, and once the extraction stage is over the file
\* is extracted with that import among its imports.
C16_ModuleNameTolerant ==
    \A p \in FileNodes :
        ModulelessImports(p) # {} =>
            /\ ~(pc = "extract_node_objects" /\ raised # "" /\ Head(todo) = p)
            /\ pc \in {"build_object_table", "update_relative_imports", "done"} =>
                  /\ Extracted(p)
                  /\ \A k \in ModulelessImports(p) :
                        \E j \in 1..Len(file_tree[p].objects.import_) :
                           file_tree[p].objects.import_[j].src = <<p, k>>

-----------------------------------------------------------------------------
\* The base names that start with the internal marker '__'.
HasInternalMarker(name) == name \in {"__pycache__", "__init__.py", "__main__.py"}

\* The tree holds what the snapshot lists, filtered.
MirrorsSnapshot(tree) ==
    /\ repo_path \in DOMAIN tree /\ ~tree[repo_path].is_file
    /\ \A p \in DOMAIN tree \ {repo_path} :
          /\ Len(p) > Len(repo_path)
          /\ SubSeq(p, 1, Len(repo_path)) = repo_path
          /\ \A i \in (Len(repo_path) + 1)..Len(p) : ~HasInternalMarker(p[i])
          /\ Parent(p) \in DOMAIN tree /\ ~tree[Parent(p)].is_file
          /\ \E it \in Range(fs.listing[Parent(p)]) : ItemName(it) = Last(p)
    /\ \A d \in DOMAIN tree : ~tree[d].is_file =>
          \A it \in Range(fs.listing[d]) :
             LET child == JoinPath(d, ItemName(it))
                 marked == HasInternalMarker(ItemName(it))
             IN  IF it.is_dir
                 THEN /\ ~marked => child \in DOMAIN tree /\ ~tree[child].is_file
                      /\ marked => child \notin DOMAIN tree
                 ELSE /\ child \in DOMAIN tree <=> (~marked /\ it.suffix = ".py")
                      /\ child \in DOMAIN tree => tree[child].is_file
                      /\ it.suffix = ".ipynb" => child \notin DOMAIN tree

\* C17: create_tree on an existing root raises nothing and leaves a tree that
\* mirrors the snapshot: no node below the root has a marked base name or lies
\* beneath a marked directory, every unmarked directory has a directory node
\* (an empty one too), and a file has a file node exactly when it is unmarked
\* and ends in .py, a notebook never.  On a missing root it raises
\* FileNotFoundError.
C17_TreeMirrorsSnapshot ==
    [][create_tree =>
          IF fs.exists
          THEN raised' = "" /\ MirrorsSnapshot(file_tree')
          ELSE raised' = "FileNotFoundError"]_vars

\* A tree has been built from a snapshot that lists a marked directory with a
\* source file in it, a marked source file, a notebook, a file of another kind
\* and an empty directory.
C17_Witness ==
    /\ fs.exists
    /\ file_tree # NoTree
    /\ MirrorsSnapshot(file_tree)
    /\ Lists(repo_path, "__pycache__") /\ Lists(JoinPath(repo_path, "__pycache__"), "junk.py")
    /\ Lists(PkgDir, "__init__.py")
    /\ Lists(repo_path, "nb.ipynb")
    /\ Lists(JoinPath(repo_path, "docs"), "README.md")
    /\ fs.listing[JoinPath(repo_path, "empty")] = <<>>
    /\ JoinPath(repo_path, "empty") \in DirNodes
    /\ APy \in FileNodes

-----------------------------------------------------------------------------
\* The node with its resolved-import list and its flag taken from another.
WithResolutionOf(node, other) ==
    [node EXCEPT !.relative_imports = other.relative_imports,
                 !.has_link_relative_imports = other.has_link_relative_imports]

\* C18: size accounting changes neither a node nor the object table and sets
\* the two counters so that their sum, which is repo_size, is the number of
\* nodes of the tree; build_object_table changes no node; and
\* update_relative_imports changes nothing but the nodes' resolved-import
\* lists and flags: the set of nodes, every name, path, is_file, children and
\* bucket, and the whole object table stay as they were.
C18_Frame ==
    [][/\ calculate_repo_size =>
            /\ file_tree' = file_tree
            /\ object_table' = object_table
            /\ folder_count' = Cardinality(DirNodes)
            /\ file_count' = Cardinality(FileNodes)
            /\ folder_count' + file_count' = Cardinality(DOMAIN file_tree)
            /\ repo_size' = folder_count' + file_count'
       /\ build_object_table =>
            /\ file_tree' = file_tree
            /\ Counters' = Counters
       /\ update_relative_imports =>
            /\ object_table' = object_table
            /\ Counters' = Counters
            /\ DOMAIN file_tree' = DOMAIN file_tree
            /\ \A p \in DOMAIN file_tree :
                  WithResolutionOf(file_tree'[p], file_tree[p]) = file_tree[p]]_vars

\* The three later stages have acted on a tree with directories and files:
\* the counters are set, the table is filled, a file has resolved imports.
C18_Witness ==
    /\ file_tree # NoTree
    /\ Cardinality(DirNodes) >= 2 /\ Cardinality(FileNodes) >= 2
    /\ repo_size = Cardinality(DOMAIN file_tree)
    /\ folder_count + file_count = repo_size
    /\ \A f \in FileNodes : f \in DOMAIN object_table /\ object_table[f] # <<>>
    /\ \A p \in DOMAIN file_tree : file_tree[p].has_link_relative_imports
    /\ \E f \in FileNodes :
          /\ file_tree[f].relative_imports # <<>>
          /\ Len(file_tree[f].objects.import_) > 0

====
